---- MODULE Spec2Model ----
(***************************************************************************)
(* Model of pomaar's PoarimetricArraySynthesizer                           *)
(* (src/src/pomaar/array_synthesizer.py): the physical element arrays, the *)
(* virtual-array synthesis (set_arrays / _compute_virtual), the overlap    *)
(* analysis (analyze_calibration_overlaps) and the report of plot_topology.*)
(*                                                                         *)
(* Numbers.  The code works on IEEE doubles in units of lambda/2.  The     *)
(* model works in exact fixed point with one unit = 1/6400 lambda/2, so    *)
(* the grid resolution 1e-2 is 64 units.  Coordinates of the inputs are    *)
(* multiples of 25 units (= 1/256 lambda/2): those values and their sums   *)
(* are dyadic, p / 1e-2 rounds to the exact 100 * p in binary64 and        *)
(* np.floor of it equals the exact floor, so the integer arithmetic below  *)
(* is what the code computes on these inputs.  NaN stands for a non-finite *)
(* double; it is absorbing under addition.                                 *)
(*                                                                         *)
(* An array is a sequence of rows (the rows of the ndarray); the empty     *)
(* array np.empty((0, 2)) is the empty sequence.                           *)
(***************************************************************************)
EXTENDS Integers, Sequences, FiniteSets, TLC

\* resolution = 1e-2 (line 50), in units of 1/6400
resolution == 64

\* a non-finite double (float("nan")); no finite coordinate of the model reaches it
NaN == 999999

\* bound: the total number of physical antenna elements of a layout
MaxElems == 4

\* bound: the number of set_arrays calls of a SpecAny run
MaxCalls == 2

\* element positions a caller may place (x, y), in units of 1/6400
Points == {<<0, 0>>, <<-25, 50>>, <<75, 0>>}

----------------------------------------------------------------------------
(* numpy helpers *)

\* float addition: NaN is absorbing
FAdd(a, b) == IF a = NaN \/ b = NaN THEN NaN ELSE a + b

\* np.array(list) raises ValueError on rows of different lengths (numpy >= 1.24)
Ragged(a) == \E i, j \in DOMAIN a : Len(a[i]) # Len(a[j])

\* `np.array(x) if len(x) > 0 else np.empty((0, 2))`
as_array(a) == IF Len(a) > 0 THEN a ELSE <<>>

\* number of columns of a non-empty array
Cols(a) == Len(a[1])

\* ndarray.size
Size(a) == IF Len(a) = 0 THEN 0 ELSE Len(a) * Cols(a)

\* last-axis length of tx[:, None, :] + rx[None, :, :] under broadcasting
BroadcastCols(tx, rx) == IF Cols(tx) >= Cols(rx) THEN Cols(tx) ELSE Cols(rx)

\* the broadcast is legal when the last axes agree or one of them is 1
BroadcastOK(tx, rx) == Cols(tx) = Cols(rx) \/ Cols(tx) = 1 \/ Cols(rx) = 1

\* column k of a row under broadcasting (a length-1 axis is repeated)
Col(row, k) == IF Len(row) = 1 THEN row[1] ELSE row[k]

\* element n (1-based, C order) of the (N_tx, N_rx, d) sum
FlatSum(tx, rx, n) ==
    LET d == BroadcastCols(tx, rx)
        i == ((n - 1) \div (Len(rx) * d)) + 1
        j == (((n - 1) \div d) % Len(rx)) + 1
        k == ((n - 1) % d) + 1
    IN  FAdd(Col(tx[i], k), Col(rx[j], k))

\* convolve raises (broadcast error, or reshape(-1, 2) of an odd number of values)
ConvolveError(tx, rx) ==
    /\ Size(tx) # 0
    /\ Size(rx) # 0
    /\ \/ ~BroadcastOK(tx, rx)
       \/ (Len(tx) * Len(rx) * BroadcastCols(tx, rx)) % 2 # 0

\* faulty variant of convolve: rx-major instead of tx-major order
ConvolveRxMajor(tx, rx) ==
    IF Size(tx) # 0 /\ Size(rx) # 0
    THEN [r \in 1..(Len(tx) * Len(rx)) |->
            LET j == ((r - 1) \div Len(tx)) + 1
                i == ((r - 1) % Len(tx)) + 1
            IN  <<FAdd(tx[i][1], rx[j][1]), FAdd(tx[i][2], rx[j][2])>>]
    ELSE <<>>

\* convolve(tx, rx): (N_tx, 1, 2) + (1, N_rx, 2) -> (N_tx * N_rx, 2)
convolve(tx, rx) ==
    IF Size(tx) # 0 /\ Size(rx) # 0
    THEN [r \in 1..((Len(tx) * Len(rx) * BroadcastCols(tx, rx)) \div 2) |->
            <<FlatSum(tx, rx, 2 * r - 1), FlatSum(tx, rx, 2 * r)>>]
    ELSE <<>>

----------------------------------------------------------------------------
(* analyze_calibration_overlaps, as a function of the four virtual channels *)

\* faulty variant of FloorBin: truncation toward zero (int(x / resolution))
TruncBin(x) == IF x >= 0 THEN x \div resolution ELSE 0 - ((0 - x) \div resolution)

\* np.floor(x / resolution).astype(int) of one finite coordinate
FloorBin(x) == x \div resolution

\* one row of binned_positions
binned_position(p) == <<FloorBin(p[1]), FloorBin(p[2])>>

\* faulty variant of AddToBin: the bin is a list, a repeated position of a channel is
\* recorded once more (as a second entry) and counted by len(channels)
AddToBinList(bins, position, channel) ==
    IF \E i \in DOMAIN bins : bins[i].position = position
    THEN [i \in DOMAIN bins |->
            IF bins[i].position = position
            THEN [bins[i] EXCEPT !.channels =
                    IF channel \in @ THEN @ \cup {"again"} ELSE @ \cup {channel}]
            ELSE bins[i]]
    ELSE Append(bins, [position |-> position, channels |-> {channel}])

\* occupied_bins[tuple(position)].add(channel); the dict keeps insertion order
AddToBin(bins, position, channel) ==
    IF \E i \in DOMAIN bins : bins[i].position = position
    THEN [i \in DOMAIN bins |->
            IF bins[i].position = position
            THEN [bins[i] EXCEPT !.channels = @ \cup {channel}]
            ELSE bins[i]]
    ELSE Append(bins, [position |-> position, channels |-> {channel}])

RECURSIVE AddPositions(_, _, _, _)
\* `for position in binned_positions`, from row i on
AddPositions(bins, channel, positions, i) ==
    IF i > Len(positions) THEN bins
    ELSE AddPositions(AddToBin(bins, binned_position(positions[i]), channel),
                      channel, positions, i + 1)

RECURSIVE AddChannels(_, _, _)
\* `for channel, positions in [...]`, from list entry c on
AddChannels(bins, list, c) ==
    IF c > Len(list) THEN bins
    ELSE IF Size(list[c][2]) = 0
         THEN AddChannels(bins, list, c + 1)
         ELSE AddChannels(AddPositions(bins, list[c][1], list[c][2], 1), list, c + 1)

\* occupied_bins after the first loop
occupied_bins(hh, vv, hv, vh) ==
    AddChannels(<<>>, << <<"hh", hh>>, <<"vv", vv>>, <<"hv", hv>>, <<"vh", vh>> >>, 1)

\* real_coord = [coord * resolution for coord in position]
real_coord(position) == <<position[1] * resolution, position[2] * resolution>>

\* faulty variant of IsCalibration: only the cross-polar pair counts
IsCalibrationCrossOnly(channels) == {"hv", "vh"} \subseteq channels

\* any(pair.issubset(channels) for pair in [{"hh", "vv"}, {"hv", "vh"}])
IsCalibration(channels) ==
    \E pair \in {{"hh", "vv"}, {"hv", "vh"}} : pair \subseteq channels

\* faulty variant of IsOverlap: a bin needs more than two channels
IsOverlapStrict(channels) == Cardinality(channels) > 2

\* the negation of `if len(channels) < 2: continue`
IsOverlap(channels) == Cardinality(channels) >= 2

RECURSIVE Collect(_, _, _)
\* the second loop from dict entry i on: the coordinates appended to the
\* calibration list (calib = TRUE) or to the redundant list (calib = FALSE)
Collect(bins, i, calib) ==
    IF i > Len(bins) THEN <<>>
    ELSE IF IsOverlap(bins[i].channels) /\ (IsCalibration(bins[i].channels) <=> calib)
         THEN <<real_coord(bins[i].position)>> \o Collect(bins, i + 1, calib)
         ELSE Collect(bins, i + 1, calib)

\* Python's order on two lists of floats
LexLess(a, b) == a[1] < b[1] \/ (a[1] = b[1] /\ a[2] < b[2])

\* insert x after the last element that is not greater (sorted is stable)
Insert(s, x) ==
    LET n == Cardinality({i \in DOMAIN s : ~LexLess(x, s[i])})
    IN  SubSeq(s, 1, n) \o <<x>> \o SubSeq(s, n + 1, Len(s))

RECURSIVE SortFrom(_, _, _)
SortFrom(done, s, i) ==
    IF i > Len(s) THEN done ELSE SortFrom(Insert(done, s[i]), s, i + 1)

\* faulty variant of sorted: the list is returned in dict order
unsorted(s) == s

\* sorted(list)
sorted(s) == SortFrom(<<>>, s, 1)

\* the pair returned by analyze_calibration_overlaps
analyze(hh, vv, hv, vh) ==
    LET bins == occupied_bins(hh, vv, hv, vh)
    IN  <<sorted(Collect(bins, 1, TRUE)), sorted(Collect(bins, 1, FALSE))>>

----------------------------------------------------------------------------
(* the object, and what its last call did *)

VARIABLES
    tx_h, tx_v, rx_h, rx_v,     \* self.tx_h ... self.rx_v           (lines 13-16)
    v_hh, v_vv, v_hv, v_vh,     \* self.v_hh ... self.v_vh           (lines 19-22)
    args,                       \* the four lists of the latest set_arrays call
    lastop,                     \* the method called last
    raised,                     \* TRUE when that call ended in an exception
    calibration_overlaps,       \* the lists the last call's analysis returned
    redundant_overlaps,
    printed,                    \* what the last plot_topology call printed
    ncalls,                     \* calls made by the caller of SpecAny
    pc, targs, rpc, snap,       \* threads sharing the instance (SpecConc)
    held,                       \* the arguments a thread evaluated for convolve
    overlapped

physical == <<tx_h, tx_v, rx_h, rx_v>>
virtual == <<v_hh, v_vv, v_hv, v_vh>>
outcome == <<lastop, raised, calibration_overlaps, redundant_overlaps, printed>>
threads == <<pc, targs, rpc, snap, held, overlapped>>
vars == <<physical, virtual, args, outcome, ncalls, threads>>

Threads == {1, 2}
NoLayout == <<<<>>, <<>>, <<>>, <<>>>>

\* a thread that is not inside a convolve call holds no arguments
NoArgs == <<<<>>, <<>>>>

\* the steps of one set_arrays call: the four assignments of lines 26-29, then
\* for each of lines 39-42 two attribute reads and the assignment of the result
Done == 16

\* __init__: all eight arrays are np.empty((0, 2))
Constructed ==
    /\ tx_h = <<>> /\ tx_v = <<>> /\ rx_h = <<>> /\ rx_v = <<>>
    /\ v_hh = <<>> /\ v_vv = <<>> /\ v_hv = <<>> /\ v_vh = <<>>
    /\ lastop = "init" /\ raised = FALSE
    /\ calibration_overlaps = <<>> /\ redundant_overlaps = <<>>
    /\ printed = <<>>

NoThreads ==
    /\ pc = [t \in Threads |-> 0]
    /\ targs = [t \in Threads |-> NoLayout]
    /\ rpc = 0
    /\ snap = NoLayout
    /\ held = [t \in Threads |-> NoArgs]
    /\ overlapped = FALSE

\* the number of the first argument np.array rejects (5: none)
FirstBadArg(a) ==
    IF Ragged(a[1]) THEN 1
    ELSE IF Ragged(a[2]) THEN 2
    ELSE IF Ragged(a[3]) THEN 3
    ELSE IF Ragged(a[4]) THEN 4
    ELSE 5

\* the number of the first virtual channel whose convolve raises (5: none),
\* in the order of _compute_virtual: hh, vv, hv, vh
FirstBadChannel(p) ==
    IF ConvolveError(p[1], p[3]) THEN 1
    ELSE IF ConvolveError(p[2], p[4]) THEN 2
    ELSE IF ConvolveError(p[1], p[4]) THEN 3
    ELSE IF ConvolveError(p[2], p[3]) THEN 4
    ELSE 5

\* _compute_virtual on the physical arrays p: the channels before number
\* `upto` are assigned, the others keep their old value (the exception leaves)
compute_virtual(p, old, upto) ==
    << IF upto > 1 THEN convolve(p[1], p[3]) ELSE old[1],
       IF upto > 2 THEN convolve(p[2], p[4]) ELSE old[2],
       IF upto > 3 THEN convolve(p[1], p[4]) ELSE old[3],
       IF upto > 4 THEN convolve(p[2], p[3]) ELSE old[4] >>

\* set_arrays(tx_h, tx_v, rx_h, rx_v), the whole call.  Each field is assigned
\* in turn; an exception of np.array leaves the fields after it, and every
\* virtual channel, as they were; an exception of convolve leaves the
\* channels after it as they were.
set_arrays(a) ==
    LET bad == FirstBadArg(a)
        p == << IF bad > 1 THEN as_array(a[1]) ELSE tx_h,
                IF bad > 2 THEN as_array(a[2]) ELSE tx_v,
                IF bad > 3 THEN as_array(a[3]) ELSE rx_h,
                IF bad > 4 THEN as_array(a[4]) ELSE rx_v >>
        upto == IF bad <= 4 THEN 1 ELSE FirstBadChannel(p)
        v == compute_virtual(p, virtual, upto)
    IN  /\ tx_h' = p[1] /\ tx_v' = p[2] /\ rx_h' = p[3] /\ rx_v' = p[4]
        /\ v_hh' = v[1] /\ v_vv' = v[2] /\ v_hv' = v[3] /\ v_vh' = v[4]
        /\ args' = a
        /\ lastop' = "set_arrays"
        /\ raised' = (upto <= 4)
        /\ calibration_overlaps' = <<>>
        /\ redundant_overlaps' = <<>>
        /\ printed' = <<>>
        /\ UNCHANGED threads

\* analyze_calibration_overlaps(): reads the four channels, changes no field
analyze_calibration_overlaps ==
    LET r == analyze(v_hh, v_vv, v_hv, v_vh)
    IN  /\ calibration_overlaps' = r[1]
        /\ redundant_overlaps' = r[2]
        /\ lastop' = "analyze_calibration_overlaps"
        /\ raised' = FALSE
        /\ printed' = <<>>
        /\ UNCHANGED <<physical, virtual, args, ncalls, threads>>

\* the print calls of plot_topology (lines 110-136): the redundant report is
\* nested in `if calibration_overlaps:`, whose else prints "No overlaps found."
report(cal, red) ==
    IF cal # <<>>
    THEN <<[kind |-> "Calibration overlaps", at |-> cal]>>
         \o (IF red # <<>> THEN <<[kind |-> "Redundant overlaps", at |-> red]>> ELSE <<>>)
    ELSE <<[kind |-> "No overlaps found.", at |-> <<>>]>>

\* plot_topology(): runs the analysis and prints its report
plot_topology ==
    LET r == analyze(v_hh, v_vv, v_hv, v_vh)
    IN  /\ calibration_overlaps' = r[1]
        /\ redundant_overlaps' = r[2]
        /\ printed' = report(r[1], r[2])
        /\ lastop' = "plot_topology"
        /\ raised' = FALSE
        /\ UNCHANGED <<physical, virtual, args, ncalls, threads>>

----------------------------------------------------------------------------
(* Spec: one caller, well-formed layouts (pairs of finite numbers) *)

\* the longest list of a layout: half of the elements
MaxPerList == MaxElems \div 2

\* how many elements each of the four lists has
Sizes ==
    {n \in (0..MaxPerList) \X (0..MaxPerList) \X (0..MaxPerList) \X (0..MaxPerList) :
        n[1] + n[2] + n[3] + n[4] <= MaxElems}

\* the layouts a caller may hold: four lists of points, in any order, with repeats
Layouts ==
    UNION {[1..n[1] -> Points] \X [1..n[2] -> Points]
           \X [1..n[3] -> Points] \X [1..n[4] -> Points] : n \in Sizes}

\* the caller (as in `__main__`) builds its four lists, then constructs the object
Init == args \in Layouts /\ Constructed /\ ncalls = 0 /\ NoThreads

\* radar.set_arrays(tx_h_pos, tx_v_pos, rx_h_pos, rx_v_pos)
call_set_arrays == set_arrays(args) /\ UNCHANGED ncalls

Next == call_set_arrays \/ analyze_calibration_overlaps \/ plot_topology

Spec == Init /\ [][Next]_vars

----------------------------------------------------------------------------
(* SpecAny: one caller, any lists: set_arrays validates nothing itself *)

\* argument lists a caller may pass, well-formed or not
RawArrays ==
    { <<>>,
      << <<0, 0>> >>,               \* a 2-D point
      << <<0, 0>>, <<0>> >>,        \* ragged: a 2-D and a 1-D point
      << <<0, 0, 0>> >>,            \* a 3-D point
      << <<NaN, 0>> >> }            \* a non-finite coordinate

InitAny == args = NoLayout /\ Constructed /\ ncalls = 0 /\ NoThreads

\* obj.set_arrays(a, b, c, d) with any four lists
call_set_arrays_any ==
    /\ ncalls < MaxCalls
    /\ ncalls' = ncalls + 1
    /\ \E a \in RawArrays \X RawArrays \X RawArrays \X RawArrays : set_arrays(a)

NextAny == call_set_arrays_any

SpecAny == InitAny /\ [][NextAny]_vars

----------------------------------------------------------------------------
(* SpecConc: two threads call set_arrays on one instance and a third calls   *)
(* analyze_calibration_overlaps.  The interpreter may switch threads between *)
(* any two bytecodes: a step is one assignment of an attribute or one read   *)
(* of an attribute (of set_arrays for a convolve call, or of the analysis).  *)

\* the layouts the concurrent calls pass
ConcLayouts ==
    { << << <<0, 0>> >>, << <<-25, 50>> >>, << <<75, 0>> >>, << <<0, 0>> >> >>,
      << << <<75, 0>> >>, << <<0, 0>> >>, << <<-25, 50>> >>, << <<-25, 50>> >> >>,
      << << <<-25, 50>>, <<0, 0>> >>, << <<0, 0>> >>, << <<0, 0>>, <<75, 0>> >>, <<>> >> }

InitConc ==
    /\ args = NoLayout /\ Constructed /\ ncalls = 0
    /\ pc = [t \in Threads |-> 0]
    /\ targs \in {f \in [Threads -> ConcLayouts] : f[1] # f[2]}
    /\ rpc = 0
    /\ snap = NoLayout
    /\ held = [t \in Threads |-> NoArgs]
    /\ overlapped = FALSE

\* some call other than the stepping one is under way
OtherUnderWay(t) ==
    \/ \E u \in Threads : u # t /\ pc[u] > 0 /\ pc[u] < Done
    \/ (t # 0 /\ rpc > 0 /\ rpc < 4)

\* faulty variant of set_arrays_step: v_hv is computed from rx_h instead of rx_v
set_arrays_step_wrong_rx(t) ==
    /\ pc[t] < Done
    /\ pc' = [pc EXCEPT ![t] = @ + 1]
    /\ tx_h' = IF pc[t] = 0 THEN as_array(targs[t][1]) ELSE tx_h
    /\ tx_v' = IF pc[t] = 1 THEN as_array(targs[t][2]) ELSE tx_v
    /\ rx_h' = IF pc[t] = 2 THEN as_array(targs[t][3]) ELSE rx_h
    /\ rx_v' = IF pc[t] = 3 THEN as_array(targs[t][4]) ELSE rx_v
    /\ held' = [held EXCEPT ![t] =
                  CASE pc[t] = 4 -> <<tx_h, <<>>>>
                    [] pc[t] = 5 -> <<@[1], rx_h>>
                    [] pc[t] = 7 -> <<tx_v, <<>>>>
                    [] pc[t] = 8 -> <<@[1], rx_v>>
                    [] pc[t] = 10 -> <<tx_h, <<>>>>
                    [] pc[t] = 11 -> <<@[1], rx_h>>
                    [] pc[t] = 13 -> <<tx_v, <<>>>>
                    [] pc[t] = 14 -> <<@[1], rx_h>>
                    [] pc[t] \in {6, 9, 12, 15} -> NoArgs
                    [] OTHER -> @]
    /\ v_hh' = IF pc[t] = 6 THEN convolve(held[t][1], held[t][2]) ELSE v_hh
    /\ v_vv' = IF pc[t] = 9 THEN convolve(held[t][1], held[t][2]) ELSE v_vv
    /\ v_hv' = IF pc[t] = 12 THEN convolve(held[t][1], held[t][2]) ELSE v_hv
    /\ v_vh' = IF pc[t] = 15 THEN convolve(held[t][1], held[t][2]) ELSE v_vh
    /\ overlapped' = (overlapped \/ OtherUnderWay(t))
    /\ UNCHANGED <<args, outcome, ncalls, targs, rpc, snap>>

\* thread t runs the next step of set_arrays.  Steps 0-3 are the assignments of
\* lines 26-29 (their right-hand sides read only the call's own lists).  Each of
\* lines 39-42 takes three steps, and another thread may run between any two:
\* the thread reads the first attribute, reads the second attribute and enters
\* convolve with the two, then assigns what convolve returned for those arrays.
set_arrays_step(t) ==
    /\ pc[t] < Done
    /\ pc' = [pc EXCEPT ![t] = @ + 1]
    /\ tx_h' = IF pc[t] = 0 THEN as_array(targs[t][1]) ELSE tx_h
    /\ tx_v' = IF pc[t] = 1 THEN as_array(targs[t][2]) ELSE tx_v
    /\ rx_h' = IF pc[t] = 2 THEN as_array(targs[t][3]) ELSE rx_h
    /\ rx_v' = IF pc[t] = 3 THEN as_array(targs[t][4]) ELSE rx_v
    /\ held' = [held EXCEPT ![t] =
                  CASE pc[t] = 4 -> <<tx_h, <<>>>>
                    [] pc[t] = 5 -> <<@[1], rx_h>>
                    [] pc[t] = 7 -> <<tx_v, <<>>>>
                    [] pc[t] = 8 -> <<@[1], rx_v>>
                    [] pc[t] = 10 -> <<tx_h, <<>>>>
                    [] pc[t] = 11 -> <<@[1], rx_v>>
                    [] pc[t] = 13 -> <<tx_v, <<>>>>
                    [] pc[t] = 14 -> <<@[1], rx_h>>
                    [] pc[t] \in {6, 9, 12, 15} -> NoArgs
                    [] OTHER -> @]
    /\ v_hh' = IF pc[t] = 6 THEN convolve(held[t][1], held[t][2]) ELSE v_hh
    /\ v_vv' = IF pc[t] = 9 THEN convolve(held[t][1], held[t][2]) ELSE v_vv
    /\ v_hv' = IF pc[t] = 12 THEN convolve(held[t][1], held[t][2]) ELSE v_hv
    /\ v_vh' = IF pc[t] = 15 THEN convolve(held[t][1], held[t][2]) ELSE v_vh
    /\ overlapped' = (overlapped \/ OtherUnderWay(t))
    /\ UNCHANGED <<args, outcome, ncalls, targs, rpc, snap>>

\* the analysing thread reads the next channel of the list on line 52; with
\* the fourth read it has its input and returns the two lists
analyze_step ==
    /\ rpc < 4
    /\ rpc' = rpc + 1
    /\ snap' = [snap EXCEPT ![rpc + 1] = virtual[rpc + 1]]
    /\ IF rpc = 3
       THEN LET r == analyze(snap'[1], snap'[2], snap'[3], snap'[4])
            IN  /\ calibration_overlaps' = r[1]
                /\ redundant_overlaps' = r[2]
                /\ lastop' = "analyze_calibration_overlaps"
       ELSE UNCHANGED <<calibration_overlaps, redundant_overlaps, lastop>>
    /\ overlapped' = (overlapped \/ OtherUnderWay(0))
    /\ UNCHANGED <<physical, virtual, args, raised, printed, ncalls, pc, targs, held>>

NextConc == (\E t \in Threads : set_arrays_step(t)) \/ analyze_step

SpecConc == InitConc /\ [][NextConc]_vars

----------------------------------------------------------------------------
(* vocabulary of the properties *)

Tags == {"hh", "vv", "hv", "vh"}

\* the stored channel of a tag
Chan(t) ==
    CASE t = "hh" -> v_hh [] t = "vv" -> v_vv [] t = "hv" -> v_hv [] t = "vh" -> v_vh

\* grid cells that cover every virtual position of the model
CellIds == -2..3
GridCells == CellIds \X CellIds

\* p lies in the half-open square of cell c
InCell(p, c) ==
    /\ c[1] * resolution <= p[1] /\ p[1] < (c[1] + 1) * resolution
    /\ c[2] * resolution <= p[2] /\ p[2] < (c[2] + 1) * resolution

\* the corner of cell c
Corner(c) == <<c[1] * resolution, c[2] * resolution>>

\* S(c): the tags with at least one position in cell c
TagsAt(c) == {t \in Tags : \E i \in DOMAIN Chan(t) : InCell(Chan(t)[i], c)}

\* how often a list holds x
Count(s, x) == Cardinality({i \in DOMAIN s : s[i] = x})

Analyzed == lastop = "analyze_calibration_overlaps"

\* the part of the claim that the grid of the properties covers every position
Covered == \A t \in Tags : \A i \in DOMAIN Chan(t) : \E c \in GridCells : InCell(Chan(t)[i], c)

\* the elementwise sum of two points
PointSum(t, r) == [k \in DOMAIN t |-> FAdd(t[k], r[k])]

\* v is the tx-major, rx-minor list of sums of tx and rx
CartesianSum(v, tx, rx) ==
    /\ Len(v) = Len(tx) * Len(rx)
    /\ \A i \in 1..Len(tx) : \A j \in 1..Len(rx) :
          /\ Len(tx[i]) = Len(rx[j])
          /\ v[(i - 1) * Len(rx) + j] = PointSum(tx[i], rx[j])

\* C1: after a successful set_arrays(tx_h, tx_v, rx_h, rx_v) each virtual channel
\* is the tx-major, rx-minor cartesian sum of its two source lists, of length
\* |tx| * |rx| (empty when either source is empty).
C1_CartesianSum ==
    (lastop = "set_arrays" /\ ~raised) =>
        /\ CartesianSum(v_hh, args[1], args[3])
        /\ CartesianSum(v_vv, args[2], args[4])
        /\ CartesianSum(v_hv, args[1], args[4])
        /\ CartesianSum(v_vh, args[2], args[3])

C1_Witness ==
    /\ lastop = "set_arrays" /\ ~raised
    /\ Len(args[1]) = 2 /\ args[1][1] # args[1][2]
    /\ Len(args[3]) = 2 /\ args[3][1] # args[3][2]
    /\ Len(v_hh) = 4 /\ v_hh[2] # v_hh[3]
    /\ Len(args[4]) = 0 /\ v_hv = <<>>

\* C2: every cell with two or more tags is reported in exactly one list, in
\* the calibration list iff {hh,vv} or {hv,vh} is among its tags; a cell with
\* fewer than two tags is reported in neither, and nothing else is reported.
C2_Classification ==
    Analyzed =>
        /\ Covered
        /\ \A c \in GridCells :
              LET S == TagsAt(c)
                  nCal == Count(calibration_overlaps, Corner(c))
                  nRed == Count(redundant_overlaps, Corner(c))
              IN  IF Cardinality(S) >= 2
                  THEN /\ nCal + nRed = 1
                       /\ nCal = 1 <=> ({"hh", "vv"} \subseteq S \/ {"hv", "vh"} \subseteq S)
                  ELSE nCal + nRed = 0
        /\ \A i \in DOMAIN calibration_overlaps :
              \E c \in GridCells : calibration_overlaps[i] = Corner(c)
        /\ \A i \in DOMAIN redundant_overlaps :
              \E c \in GridCells : redundant_overlaps[i] = Corner(c)

C2_Witness ==
    /\ Analyzed
    /\ \E c \in GridCells : TagsAt(c) = {"hh", "vv"} /\ Corner(c) = calibration_overlaps[1]
    /\ \E c \in GridCells : TagsAt(c) = {"hv"}
    /\ \E c \in GridCells : TagsAt(c) = {"vh"}

\* the positions of the four channels, as <<tag, index>>
Positions == UNION {{<<t, i>> : i \in DOMAIN Chan(t)} : t \in Tags}

PosAt(x) == Chan(x[1])[x[2]]

Abs(n) == IF n < 0 THEN 0 - n ELSE n

\* p and q differ by less than the resolution in each axis
Close(p, q) == Abs(p[1] - q[1]) < resolution /\ Abs(p[2] - q[2]) < resolution

\* both lists together hold x exactly once
ReportedOnce(x) == Count(calibration_overlaps, x) + Count(redundant_overlaps, x) = 1

\* C5 as stated: two positions of different channels that differ by less than
\* the resolution in each axis are quantized to the same cell and reported as
\* one overlap coordinate.
C5_CloseMeansMerged ==
    Analyzed =>
        \A x, y \in Positions :
            (x[1] # y[1] /\ Close(PosAt(x), PosAt(y))) =>
                \E c \in GridCells :
                    InCell(PosAt(x), c) /\ InCell(PosAt(y), c) /\ ReportedOnce(Corner(c))

\* C5 amended: two positions of different channels that lie in the same grid
\* cell [k*resolution, (k+1)*resolution) in each axis differ by less than the
\* resolution and are reported as one overlap coordinate; two positions that
\* differ by less than the resolution lie in the same cell or in neighbouring
\* cells (index difference at most 1 per axis).
C5_SameCellMerged ==
    Analyzed =>
        \A x, y \in Positions :
            x[1] # y[1] =>
                /\ \A c \in GridCells :
                      (InCell(PosAt(x), c) /\ InCell(PosAt(y), c)) =>
                          Close(PosAt(x), PosAt(y)) /\ ReportedOnce(Corner(c))
                /\ Close(PosAt(x), PosAt(y)) =>
                      \E c \in GridCells :
                          /\ InCell(PosAt(x), c)
                          /\ \E d \in GridCells :
                                /\ InCell(PosAt(y), d)
                                /\ Abs(c[1] - d[1]) <= 1 /\ Abs(c[2] - d[2]) <= 1

C5_Witness ==
    /\ Analyzed
    /\ \E x, y \in Positions :
          /\ x[1] # y[1] /\ PosAt(x) # PosAt(y)
          /\ \E c \in GridCells :
                InCell(PosAt(x), c) /\ InCell(PosAt(y), c) /\ ReportedOnce(Corner(c))
    /\ \E x, y \in Positions :
          /\ x[1] # y[1] /\ Close(PosAt(x), PosAt(y))
          /\ ~ \E c \in GridCells : InCell(PosAt(x), c) /\ InCell(PosAt(y), c)

\* the coordinates of both returned lists
Reported ==
    {calibration_overlaps[i] : i \in DOMAIN calibration_overlaps}
    \cup {redundant_overlaps[i] : i \in DOMAIN redundant_overlaps}

Ascending(s) ==
    \A i, j \in DOMAIN s :
        i < j => (s[i][1] < s[j][1] \/ (s[i][1] = s[j][1] /\ s[i][2] < s[j][2]))

\* C7: each returned list is in ascending lexicographic order (x, then y) and
\* holds no coordinate twice.
C7_SortedNoDuplicates ==
    Analyzed =>
        /\ Ascending(calibration_overlaps)
        /\ Ascending(redundant_overlaps)
        /\ \A coord \in Reported :
              Count(calibration_overlaps, coord) <= 1 /\ Count(redundant_overlaps, coord) <= 1

C7_Witness ==
    /\ Analyzed
    /\ Len(redundant_overlaps) >= 2
    /\ redundant_overlaps[1][1] = redundant_overlaps[2][1]
    /\ Collect(occupied_bins(v_hh, v_vv, v_hv, v_vh), 1, FALSE) # redundant_overlaps

\* channel s with the positions i and j exchanged
Swapped(s, i, j) ==
    [k \in DOMAIN s |-> IF k = i THEN s[j] ELSE IF k = j THEN s[i] ELSE s[k]]

\* channel s with position i repeated at the end
Repeated(s, i) == Append(s, s[i])

\* the analysis with the channel of tag t replaced by s
AnalyzeWith(t, s) ==
    analyze(IF t = "hh" THEN s ELSE v_hh, IF t = "vv" THEN s ELSE v_vv,
            IF t = "hv" THEN s ELSE v_hv, IF t = "vh" THEN s ELSE v_vh)

\* C8: the result depends only on which (cell, tag) pairs are occupied:
\* exchanging two positions of a channel, or repeating a position of a
\* channel, leaves both returned lists unchanged.
C8_OrderAndMultiplicity ==
    Analyzed =>
        \A t \in Tags :
            /\ \A i, j \in DOMAIN Chan(t) :
                  AnalyzeWith(t, Swapped(Chan(t), i, j))
                      = <<calibration_overlaps, redundant_overlaps>>
            /\ \A i \in DOMAIN Chan(t) :
                  AnalyzeWith(t, Repeated(Chan(t), i))
                      = <<calibration_overlaps, redundant_overlaps>>

C8_Witness ==
    /\ Analyzed
    /\ Len(calibration_overlaps) + Len(redundant_overlaps) >= 2
    /\ \E t \in Tags : \E i, j \in DOMAIN Chan(t) :
          /\ binned_position(Chan(t)[i]) # binned_position(Chan(t)[j])
          /\ occupied_bins(v_hh, v_vv, v_hv, v_vh)
               # occupied_bins(IF t = "hh" THEN Swapped(v_hh, i, j) ELSE v_hh,
                               IF t = "vv" THEN Swapped(v_vv, i, j) ELSE v_vv,
                               IF t = "hv" THEN Swapped(v_hv, i, j) ELSE v_hv,
                               IF t = "vh" THEN Swapped(v_vh, i, j) ELSE v_vh)

\* C10: plot_topology reports the redundant overlaps whenever the redundant
\* list is not empty, the calibration overlaps whenever the calibration list
\* is not empty, and "No overlaps found." only when both lists are empty.
C10_OneReportPerSet ==
    lastop = "plot_topology" =>
        /\ redundant_overlaps # <<>> =>
              \E i \in DOMAIN printed :
                  printed[i] = [kind |-> "Redundant overlaps", at |-> redundant_overlaps]
        /\ calibration_overlaps # <<>> =>
              \E i \in DOMAIN printed :
                  printed[i] = [kind |-> "Calibration overlaps", at |-> calibration_overlaps]
        /\ (\E i \in DOMAIN printed : printed[i].kind = "No overlaps found.") =>
              (calibration_overlaps = <<>> /\ redundant_overlaps = <<>>)

\* the four channels are the synthesis of the physical arrays p
SynthesisOf(v, p) ==
    /\ CartesianSum(v[1], p[1], p[3])
    /\ CartesianSum(v[2], p[2], p[4])
    /\ CartesianSum(v[3], p[1], p[4])
    /\ CartesianSum(v[4], p[2], p[3])

\* every row of the array is a pair of finite numbers
WellFormed(a) == \A i \in DOMAIN a : Len(a[i]) = 2 /\ a[i][1] # NaN /\ a[i][2] # NaN

\* C3: between calls, whatever set_arrays calls came before (raising ones
\* included), the four virtual channels are the synthesis of the stored
\* tx_h, tx_v, rx_h, rx_v.
C3_NeverPartiallyUpdated == SynthesisOf(virtual, physical)

\* C4: a set_arrays call with a malformed list (a non-2D point, ragged rows, a
\* non-finite value) raises and changes none of the eight fields.
C4_MalformedRejected ==
    [][(lastop' = "set_arrays" /\ \E k \in 1..4 : ~WellFormed(args'[k]))
          => (raised' /\ physical' = physical /\ virtual' = virtual)]_vars

\* C9: calls that do not overlap in time leave the instance consistent: once
\* both set_arrays calls are over the channels are the synthesis of the stored
\* arrays, which are one call's input, and an analysis that overlapped no
\* call read the synthesis of one call's input (or the empty channels).
\* Calls that do overlap can leave, or read, a mixture (C9_Witness).
C9_SequentialCallsConsistent ==
    ~overlapped =>
        /\ (\A t \in Threads : pc[t] = Done) =>
              /\ \E t \in Threads : physical = targs[t]
              /\ SynthesisOf(virtual, physical)
        /\ rpc = 4 =>
              \/ snap = NoLayout
              \/ \E t \in Threads : SynthesisOf(snap, targs[t])

C9_Witness ==
    /\ \A t \in Threads : pc[t] = Done
    /\ rpc = 4
    /\ \A t \in Threads : ~SynthesisOf(virtual, targs[t])
    /\ snap # NoLayout
    /\ \A t \in Threads : ~SynthesisOf(snap, targs[t])

====
